---- MODULE Spec2Model ----
(***************************************************************************)
(* A model of pyemu.utils.optimization.to_mps: one call of the function,   *)
(* stage by stage, from its arguments to the MPS file it writes.           *)
(*                                                                         *)
(* Names and operator tokens are sequences of one-character strings, so    *)
(* that lower(), len(), the slice name[:7], "{0}".format(count) and the    *)
(* padding of "{0:8}" are computed as Python computes them.  A dict is a   *)
(* sequence of <<key, value>> pairs in iteration order.  Numbers are       *)
(* fixed-point integers in thousandths.                                    *)
(***************************************************************************)
EXTENDS Integers, Sequences, FiniteSets, TLC

\* ------------------------------------------------------------------ bounds
\* most names longer than 8 characters among the jco rows
MaxLongRows == 11
\* most names longer than 8 characters among the jco columns
MaxLongCols == 2

\* ------------------------------------------------- strings and sequences
Range(s) == {s[i] : i \in 1..Len(s)}

RECURSIVE SelectSeqBy(_, _)
\* [x for x in s if x in keep]
SelectSeqBy(s, keep) ==
    IF s = <<>> THEN <<>>
    ELSE IF Head(s) \in keep THEN <<Head(s)>> \o SelectSeqBy(Tail(s), keep)
    ELSE SelectSeqBy(Tail(s), keep)

Reverse(s) == [i \in 1..Len(s) |-> s[Len(s) + 1 - i]]

\* list.index(x): the first position of x
Index(s, x) == CHOOSE i \in 1..Len(s) : s[i] = x /\ \A j \in 1..(i - 1) : s[j] # x

UpperChars == <<"A","B","C","D","E","F","G","H","I","J","K","L","M",
                "N","O","P","Q","R","S","T","U","V","W","X","Y","Z">>
LowerChars == <<"a","b","c","d","e","f","g","h","i","j","k","l","m",
                "n","o","p","q","r","s","t","u","v","w","x","y","z">>

LowerChar(c) == IF c \in Range(UpperChars) THEN LowerChars[Index(UpperChars, c)] ELSE c

\* str.lower()
Lower(s) == [i \in 1..Len(s) |-> LowerChar(s[i])]

DigitChars == <<"0","1","2","3","4","5","6","7","8","9">>

RECURSIVE Decimal(_)
\* "{0}".format(n) for an int n >= 0
Decimal(n) == IF n < 10 THEN <<DigitChars[n + 1]>>
              ELSE Decimal(n \div 10) \o <<DigitChars[(n % 10) + 1]>>

\* name[:k]
Prefix(s, k) == SubSeq(s, 1, IF Len(s) < k THEN Len(s) ELSE k)

\* "{0:8}".format(name): left-justified, padded with spaces, never cut
Pad8(s) == s \o [i \in 1..(IF Len(s) < 8 THEN 8 - Len(s) ELSE 0) |-> " "]

Abs(v) == IF v < 0 THEN -v ELSE v

RECURSIVE NumDigits(_)
NumDigits(n) == IF n < 10 THEN 1 ELSE 1 + NumDigits(n \div 10)

RECURSIVE Pow10(_)
Pow10(k) == IF k = 0 THEN 1 ELSE 10 * Pow10(k - 1)

\* "{0:10G}".format(v): the value the text stands for, 6 significant digits
Format10G(v) ==
    LET a == Abs(v)
        d == NumDigits(a)
    IN  IF d <= 6 THEN v
        ELSE LET s == Pow10(d - 6)
                 q == a \div s
                 r == a % s
                 up == (2 * r > s) \/ (2 * r = s /\ q % 2 = 1)
                 m == (IF up THEN q + 1 ELSE q) * s
             IN  IF v < 0 THEN -m ELSE m

\* ------------------------------------------------------------- dicts
DictKeys(d) == {d[i][1] : i \in 1..Len(d)}
DictKeySeq(d) == [i \in 1..Len(d) |-> d[i][1]]
DictGet(d, k) == d[Index(DictKeySeq(d), k)][2]

RECURSIVE DictPop(_, _)
\* d.pop(k) for a key that is present
DictPop(d, k) ==
    IF d = <<>> THEN <<>>
    ELSE IF Head(d)[1] = k THEN Tail(d)
    ELSE <<Head(d)>> \o DictPop(Tail(d), k)

\* d[k] = v
DictSet(d, k, v) ==
    IF k \in DictKeys(d)
    THEN [i \in 1..Len(d) |-> IF d[i][1] = k THEN <<k, v>> ELSE d[i]]
    ELSE Append(d, <<k, v>>)

\* ----------------------------------------------------- program constants
OPERATOR_WORDS == << <<"l">>, <<"g">>, <<"n">>, <<"e">> >>
OPERATOR_SYMBOLS == << <<"<","=">>, <<">","=">>, <<"=">>, <<"=">> >>

None == [type |-> "None"]
Str(s) == [type |-> "str", s |-> s]
List(s) == [type |-> "list", items |-> s]
Dict(d) == [type |-> "dict", d |-> d]

\* ------------------------------------------------------- the input space
n_obj == <<"o","b","j">>
n_OBJ == <<"O","B","J">>
n_c1 == <<"c","1">>
n_C1 == <<"C","1">>
n_c2 == <<"c","2">>
\* an 8-character name, kept as it is, that ends in a digit
n_constrn0 == <<"c","o","n","s","t","r","n","0">>
n_xobs == <<"x","o","b","s">>
n_p1 == <<"p","1">>
n_P1 == <<"P","1">>
n_p2 == <<"p","2">>
n_paramet0 == <<"p","a","r","a","m","e","t","0">>
n_zz == <<"z","z">>
\* names of 9 characters and more: "constrnt1", ..., and "parameter1", ...
LongRow(i) == <<"c","o","n","s","t","r","n","t">> \o Decimal(i)
LongCol(i) == <<"p","a","r","a","m","e","t","e","r">> \o Decimal(i)

RowBases == { <<n_obj, n_c1, n_c2>>, <<n_c1, n_obj, n_constrn0>> }
ColBases == { <<n_p1, n_p2>>, <<n_p1, n_paramet0, n_p2>> }

RowNames(base, k, rev) ==
    LET s == base \o [i \in 1..k |-> LongRow(i)] IN IF rev THEN Reverse(s) ELSE s
ColNames(base, k) == base \o [i \in 1..k |-> LongCol(i)]

\* jco.x, in thousandths
XVal(i, j) == 1000 * i + 100 * j

MakeJco(type, rows, cols) ==
    [type |-> type, row_names |-> rows, col_names |-> cols,
     x |-> [i \in 1..Len(rows) |-> [j \in 1..Len(cols) |-> XVal(i, j)]]]

g_l == <<"l">>
g_g == <<"g">>
g_e == <<"e">>
g_n == <<"n">>
g_og == <<"o","g">>
\* the order in which DataFrame.groupby yields the group keys (sorted)
GroupOrder == <<g_e, g_g, g_l, g_n, g_og>>
GroupPatterns == {"std", "eq", "unrecognised", "two_n", "no_n"}

\* obgnme of observation name under a pattern of group membership
GroupOf(pattern, name, pos) ==
    CASE pattern = "unrecognised" -> g_og
      [] name = n_obj -> (IF pattern = "no_n" THEN g_og ELSE g_n)
      [] name = n_c1 -> (IF pattern = "eq" THEN g_e
                          ELSE IF pattern = "two_n" THEN g_n ELSE g_l)
      [] name = n_c2 -> g_g
      [] OTHER -> (IF pos % 2 = 0 THEN g_l ELSE g_g)

Faults == {"none", "drop_par", "extra_obs", "res_none", "res_missing"}

\* residuals and parameter values, in thousandths
ResidualOf(pos) == 5000 - 700 * pos
ParvalOf(pos) == IF pos = 2 THEN 1234567 ELSE 1000 * pos
ParubndOf(pos) == 10000 * pos
ParlbndOf(pos) == 0 - 5000 * pos

\* the control file: observation_data, parameter_data, res, filename
MakePst(rows, cols, pst_rev, pattern, fault) ==
    LET onames == (IF pst_rev THEN Reverse(rows) ELSE rows)
                    \o (IF fault = "extra_obs" THEN <<n_xobs>> ELSE <<>>)
        pnames == IF fault = "drop_par" THEN SubSeq(cols, 1, Len(cols) - 1) ELSE cols
        rnames == IF fault = "res_missing" THEN SelectSeqBy(onames, Range(onames) \ {n_c1})
                  ELSE onames
    IN  [type |-> "Pst",
         obs |-> [i \in 1..Len(onames) |->
                     [obsnme |-> onames[i], obgnme |-> GroupOf(pattern, onames[i], i)]],
         pars |-> [i \in 1..Len(pnames) |->
                     [parnme |-> pnames[i], parval1 |-> ParvalOf(i),
                      parubnd |-> ParubndOf(i), parlbnd |-> ParlbndOf(i)]],
         res |-> IF fault = "res_none" THEN None
                 ELSE [type |-> "res",
                       rows |-> [i \in 1..Len(rnames) |->
                                    [name |-> rnames[i], residual |-> ResidualOf(i)]]],
         filename |-> "case.pst"]

\* decision_var_names arguments
DvChoices == {"none", "first", "upper", "unknown", "all_but_p2"}
DvArg(choice, cols) ==
    CASE choice = "none" -> None
      [] choice = "first" -> List(<<n_p1>>)
      [] choice = "upper" -> List(<<n_P1>>)
      [] choice = "unknown" -> List(<<n_p1, n_zz>>)
      [] OTHER -> List(Reverse(SelectSeqBy(cols, Range(cols) \ {n_p2})))

\* operator tokens of an explicit obs_constraint_sense
Tokens == { <<"l">>, <<"g">>, <<"e">>, <<"n">>, <<"G">>,
            <<"<","=">>, <<">","=">>, <<"=">>, <<"<">> }

\* obs_constraint_sense arguments: every row but obj, the first key with
\* the token tok and the others with "g"
SenseArg(rows, tok, rev, upper) ==
    LET ks0 == SelectSeqBy(rows, Range(rows) \ {n_obj})
        ks == IF rev THEN Reverse(ks0) ELSE ks0
    IN  Dict([i \in 1..Len(ks) |->
                 <<IF upper /\ ks[i] = n_c1 THEN n_C1 ELSE ks[i],
                   IF i = 1 THEN tok ELSE g_g>>])
SenseChoices(rows) ==
    {SenseArg(rows, tok, rev, FALSE) : tok \in Tokens, rev \in BOOLEAN}
        \cup {SenseArg(rows, g_l, FALSE, TRUE)}

\* obj_func arguments
ObjChoices == {"none", "obs", "obs_upper", "constraint", "unknown", "dict",
               "dict_bad_key", "other"}
ObjValueOf(pos) == 7000 + 1000 * pos
ObjArg(choice, cols, dvchoice) ==
    LET dv == DvArg(dvchoice, cols)
        keys == IF dv.type = "None" THEN Reverse(cols)
                ELSE Reverse(SelectSeqBy(cols, {Lower(n) : n \in Range(dv.items)}))
        d == [i \in 1..Len(keys) |-> <<keys[i], ObjValueOf(i)>>]
    IN  CASE choice = "none" -> None
          [] choice = "obs" -> Str(n_obj)
          [] choice = "obs_upper" -> Str(n_OBJ)
          [] choice = "constraint" -> Str(n_c1)
          [] choice = "unknown" -> Str(n_zz)
          [] choice = "dict" -> Dict(d)
          [] choice = "dict_bad_key" -> Dict(Append(d, <<n_zz, 0>>))
          [] OTHER -> [type |-> "other"]

\* risk levels, in thousandths
Risks == {100, 500, 900}

\* how the control file reaches the call: an object, a file next to the
\* matrix file, or not at all
Supplies == {"object", "file", "absent"}

\* ------------------------------------------------------------- the state
\* The parameters of to_mps (line 11-13) under their own names, pst_file for
\* the control file that Pst(pst_name) finds on disk (line 53-54), sense_arg
\* for obs_constraint_sense as the caller passed it, the locals of the
\* function under their own names, mps_file for the file that line 236
\* opens, pc for the stage the call is at and err for the exception raised.
VARIABLES
    jco, pst, pst_file, decision_var_names, obs_constraint_sense, obj_func,
    risk, mps_filename, sense_arg,
    pst_name, operators, order_obs_constraints, order_dec_var,
    new_constraint_names, new_decision_names, obj, obj_name, rhs,
    mps_file, pc, err

vars == <<jco, pst, pst_file, decision_var_names, obs_constraint_sense, obj_func,
          risk, mps_filename, sense_arg, pst_name, operators, order_obs_constraints,
          order_dec_var, new_constraint_names, new_decision_names, obj,
          obj_name, rhs, mps_file, pc, err>>

\* sense_arg keeps obs_constraint_sense as the caller passed it
args == <<jco, pst, pst_file, decision_var_names, obs_constraint_sense, obj_func,
          risk, mps_filename, sense_arg>>
locals == <<pst_name, operators, order_obs_constraints, order_dec_var,
            new_constraint_names, new_decision_names, obj, obj_name, rhs>>

NoFile == [state |-> "absent", lines |-> <<>>]

\* One call: its arguments, the files it finds, and nothing computed yet.
Start(rows, cols, jtype, supply, pst_rev, pattern, fault, dvc, sense, objc, r) ==
    /\ jco = MakeJco(jtype, rows, cols)
    /\ pst = IF supply = "object" THEN MakePst(rows, cols, pst_rev, pattern, fault)
             ELSE None
    /\ pst_file = IF supply = "file" THEN MakePst(rows, cols, pst_rev, pattern, fault)
                  ELSE None
    /\ decision_var_names = DvArg(dvc, cols)
    /\ obs_constraint_sense = sense
    /\ sense_arg = sense
    /\ obj_func = ObjArg(objc, cols, dvc)
    /\ risk = r
    /\ mps_filename = None
    /\ pst_name = None
    /\ operators = <<>>
    /\ order_obs_constraints = <<>>
    /\ order_dec_var = <<>>
    /\ new_constraint_names = <<>>
    /\ new_decision_names = <<>>
    /\ obj = <<>>
    /\ obj_name = None
    /\ rhs = <<>>
    /\ mps_file = NoFile
    /\ pc = "load_jco"
    /\ err = "none"

\* every shape of obs_constraint_sense and obj_func, on short names, with
\* matrix and control file given as objects
InitArguments ==
    \E base \in RowBases, rev \in BOOLEAN, dvc \in {"none", "first"},
       objc \in ObjChoices, r \in Risks :
        LET rows == RowNames(base, 0, rev)
            cols == <<n_p1, n_p2>>
        IN  \/ \E pattern \in GroupPatterns :
                 Start(rows, cols, "Matrix", "object", FALSE, pattern, "none",
                       dvc, None, objc, r)
            \/ Start(rows, cols, "Matrix", "object", TRUE, "std", "none",
                     dvc, None, objc, r)
            \/ \E sense \in SenseChoices(rows) :
                 Start(rows, cols, "Matrix", "object", FALSE, "std", "none",
                       dvc, sense, objc, r)

\* names longer than 8 characters among the rows and the columns
InitLongNames ==
    \E base \in RowBases, rev \in BOOLEAN, k \in 1..MaxLongRows,
       kc \in 0..MaxLongCols, explicit \in BOOLEAN, dvc \in {"none", "all_but_p2"},
       r \in {100, 500} :
        LET rows == RowNames(base, k, rev)
            cols == ColNames(<<n_p1, n_paramet0, n_p2>>, kc)
        IN  Start(rows, cols, "Matrix", "object", TRUE, "std", "none", dvc,
                  IF explicit THEN SenseArg(rows, g_l, TRUE, FALSE) ELSE None,
                  "none", r)

\* every way of supplying the matrix and the control file, and control
\* files that do not cover the matrix
InitSupply ==
    \E cbase \in ColBases, jtype \in {"str", "Matrix"},
       supply \in Supplies, fault \in Faults, dvc \in DvChoices,
       explicit \in BOOLEAN :
        LET rows == <<n_obj, n_c1, n_c2>>
            cols == ColNames(cbase, 1)
        IN  Start(rows, cols, jtype, supply, FALSE, "std", fault, dvc,
                  IF explicit THEN SenseArg(rows, g_l, FALSE, FALSE) ELSE None,
                  "none", 500)

Init == InitArguments \/ InitLongNames \/ InitSupply

\* raise: the call ends with the exception, whatever else is unchanged
Raise(e) == pc' = "raised" /\ err' = e

\* --------------------------------------------------------- the stages
\* lines 45-49: a jco given as a filename is loaded, and names the pst file
LoadJco ==
    /\ pc = "load_jco"
    /\ IF jco.type = "str"
       THEN /\ pst_name' = Str("case.pst")
            /\ jco' = [jco EXCEPT !.type = "Matrix"]
       ELSE UNCHANGED <<pst_name, jco>>
    /\ pc' = "find_pst"
    /\ UNCHANGED <<sense_arg, pst, pst_file, decision_var_names, obs_constraint_sense,
                   obj_func, risk, mps_filename, operators, order_obs_constraints,
                   order_dec_var, new_constraint_names, new_decision_names, obj,
                   obj_name, rhs, mps_file, err>>

ObsNames(p) == [i \in 1..Len(p.obs) |-> p.obs[i].obsnme]
ParNames(p) == [i \in 1..Len(p.pars) |-> p.pars[i].parnme]
ResNames(p) == [i \in 1..Len(p.res.rows) |-> p.res.rows[i].name]

\* lines 51-64: find the control file and check it covers the matrix
FindPstError ==
    IF pst.type = "None"
    THEN IF pst_name.type = "None" THEN "NameError"
         ELSE IF pst_file.type = "None" THEN "Exception"
         ELSE IF pst_file.res.type = "None" THEN "AssertionError"
         ELSE "none"
    ELSE IF ~(Range(jco.row_names) \subseteq Range(ObsNames(pst))) THEN "AssertionError"
         ELSE IF ~(Range(jco.col_names) \subseteq Range(ParNames(pst))) THEN "AssertionError"
         ELSE IF pst.res.type = "None" THEN "AssertionError"
         ELSE "none"

FindPst ==
    /\ pc = "find_pst"
    /\ pst' = IF pst.type = "None" /\ pst_name.type # "None" /\ pst_file.type # "None"
              THEN pst_file ELSE pst
    /\ IF FindPstError # "none"
       THEN Raise(FindPstError)
       ELSE pc' = "select_dv" /\ err' = err
    /\ UNCHANGED <<jco, pst_file, decision_var_names, obs_constraint_sense,
                   obj_func, risk, mps_filename, mps_file, sense_arg>>
    /\ UNCHANGED locals

\* lines 66-78: the decision variables, lower-cased in place and validated
\* one by one; 0 when every name passes, else the index that fails
DvFailIndex(items) ==
    LET bad == {i \in 1..Len(items) :
                    \/ Lower(items[i]) \notin Range(jco.col_names)
                    \/ Lower(items[i]) \notin Range(ParNames(pst))}
    IN  IF bad = {} THEN 0 ELSE CHOOSE i \in bad : \A j \in bad : i <= j

SelectDecisionVars ==
    /\ pc = "select_dv"
    /\ IF decision_var_names.type = "None"
       THEN /\ decision_var_names' = List(jco.col_names)
            /\ pc' = "resolve_sense"
            /\ err' = err
       ELSE LET items == decision_var_names.items
                fail == DvFailIndex(items)
                upto == IF fail = 0 THEN Len(items) ELSE fail
            IN  /\ decision_var_names' =
                      List([i \in 1..Len(items) |->
                               IF i <= upto THEN Lower(items[i]) ELSE items[i]])
                /\ IF fail = 0
                   THEN pc' = "resolve_sense" /\ err' = err
                   ELSE Raise("AssertionError")
    /\ UNCHANGED <<jco, pst, pst_file, obs_constraint_sense, obj_func, risk,
                   mps_filename, mps_file, sense_arg>>
    /\ UNCHANGED locals

\* pst.obs_groups: the group names of observation_data
ObsGroups(p) == SelectSeqBy(GroupOrder, {p.obs[i].obgnme : i \in 1..Len(p.obs)})

\* observation_data.groupby(obgnme).groups[og]: the members of a group
GroupMembers(p, og) ==
    SelectSeqBy(ObsNames(p), {p.obs[i].obsnme : i \in {j \in 1..Len(p.obs) : p.obs[j].obgnme = og}})

ConstGroups(p) ==
    SelectSeqBy(ObsGroups(p), {g \in Range(ObsGroups(p)) : Lower(g) \in Range(OPERATOR_WORDS)})

RECURSIVE InferSense(_, _)
\* lines 86-93: the members of every recognised group but 'n', with the
\* group as their sense
InferSense(p, groups) ==
    IF groups = <<>> THEN <<>>
    ELSE LET og == Head(groups)
             members == GroupMembers(p, og)
             here == IF og = g_n \/ og \notin Range(ConstGroups(p)) THEN <<>>
                     ELSE [i \in 1..Len(members) |-> <<members[i], og>>]
         IN  here \o InferSense(p, Tail(groups))

\* lines 80-96
ResolveConstraintSense ==
    /\ pc = "resolve_sense"
    /\ IF obs_constraint_sense.type = "None"
       THEN IF ConstGroups(pst) = <<>>
            THEN Raise("Exception") /\ UNCHANGED obs_constraint_sense
            ELSE LET d == InferSense(pst, ObsGroups(pst))
                 IN  /\ obs_constraint_sense' = Dict(d)
                     /\ IF Len(d) > 0 THEN pc' = "operators" /\ err' = err
                        ELSE Raise("AssertionError")
       ELSE /\ UNCHANGED obs_constraint_sense
            /\ IF obs_constraint_sense.type = "dict" /\ Len(obs_constraint_sense.d) > 0
               THEN pc' = "operators" /\ err' = err
               ELSE Raise("AssertionError")
    /\ UNCHANGED <<jco, pst, pst_file, decision_var_names, obj_func, risk,
                   mps_filename, mps_file, sense_arg>>
    /\ UNCHANGED locals

\* lines 105-112: the canonical code of an operator token, "" when the
\* token is neither a code nor a symbol
OperatorCode(operator) ==
    IF Lower(operator) \notin Range(OPERATOR_WORDS)
    THEN IF operator \notin Range(OPERATOR_SYMBOLS) THEN <<>>
         ELSE OPERATOR_WORDS[Index(OPERATOR_SYMBOLS, operator)]
    ELSE Lower(operator)

\* lines 101-115: one pass of the loop body on the item (key, operator)
OperatorStep(st, key, operator) ==
    LET obs_name == Lower(key) IN
    IF obs_name \notin Range(ObsNames(pst)) THEN [st EXCEPT !.err = "AssertionError"]
    ELSE IF obs_name \notin Range(ResNames(pst)) THEN [st EXCEPT !.err = "AssertionError"]
    ELSE IF obs_name \notin Range(jco.row_names) THEN [st EXCEPT !.err = "AssertionError"]
    ELSE IF OperatorCode(operator) = <<>> THEN [st EXCEPT !.err = "Exception"]
    ELSE LET ops == DictSet(st.ops, obs_name, OperatorCode(operator)) IN
         IF obs_name \notin DictKeys(st.sense)
         THEN [st EXCEPT !.ops = ops, !.err = "KeyError"]
         ELSE [ops |-> ops,
               sense |-> DictSet(DictPop(st.sense, obs_name), obs_name,
                                 DictGet(st.sense, obs_name)),
               err |-> "none"]

RECURSIVE OperatorLoop(_, _)
\* lines 99-115 over the items taken when the loop starts
OperatorLoop(st, items) ==
    IF items = <<>> \/ st.err # "none" THEN st
    ELSE OperatorLoop(OperatorStep(st, Head(items)[1], Head(items)[2]), Tail(items))

\* lines 98-115: the loop runs over all the items
BuildOperators ==
    /\ pc = "operators"
    /\ LET st == OperatorLoop([ops |-> <<>>, sense |-> obs_constraint_sense.d, err |-> "none"],
                              obs_constraint_sense.d)
       IN  /\ operators' = st.ops
           /\ obs_constraint_sense' = Dict(st.sense)
           /\ IF st.err = "none" THEN pc' = "order" /\ err' = err
              ELSE Raise(st.err)
    /\ UNCHANGED <<jco, pst, pst_file, decision_var_names, obj_func, risk,
                   mps_filename, mps_file, sense_arg, pst_name, order_obs_constraints,
                   order_dec_var, new_constraint_names, new_decision_names, obj,
                   obj_name, rhs>>

\* lines 100 and 114-115: the body pops and re-inserts a key of the dict the
\* loop iterates; where items() is a view of the dict and not a list, the
\* iteration may end in RuntimeError once a first pass has changed the keys
BuildOperatorsKeysChanged ==
    /\ pc = "operators"
    /\ LET first == Head(obs_constraint_sense.d)
           st == OperatorStep([ops |-> <<>>, sense |-> obs_constraint_sense.d, err |-> "none"],
                              first[1], first[2])
       IN  /\ st.err = "none"
           /\ operators' = st.ops
           /\ obs_constraint_sense' = Dict(st.sense)
           /\ Raise("RuntimeError")
    /\ UNCHANGED <<jco, pst, pst_file, decision_var_names, obj_func, risk,
                   mps_filename, mps_file, sense_arg, pst_name, order_obs_constraints,
                   order_dec_var, new_constraint_names, new_decision_names, obj,
                   obj_name, rhs>>

\* a slip: the constraints in the order of the mapping's keys
OrderObsConstraints_MappingOrder == DictKeySeq(obs_constraint_sense.d)

\* lines 118-119: the constraint names in jco row order
OrderObsConstraints == SelectSeqBy(jco.row_names, DictKeys(obs_constraint_sense.d))

\* lines 122-123: the decision variable names in jco column order
OrderDecVar == SelectSeqBy(jco.col_names, Range(decision_var_names.items))

\* lines 117-123
OrderNames ==
    /\ pc = "order"
    /\ order_obs_constraints' = OrderObsConstraints
    /\ order_dec_var' = OrderDecVar
    /\ pc' = "shorten"
    /\ UNCHANGED <<args, mps_file, err, pst_name, operators, new_constraint_names,
                   new_decision_names, obj, obj_name, rhs>>

\* lines 130 and 142: name[:7] + "{0}".format(count)
ShortName(name, count) == Prefix(name, 7) \o Decimal(count)

RECURSIVE ShortenLoop(_, _, _)
\* lines 126-135 and 138-147: the name map, with its running counter
ShortenLoop(names, count, map) ==
    IF names = <<>> THEN map
    ELSE LET name == Head(names) IN
         IF Len(name) > 8
         THEN ShortenLoop(Tail(names), count + 1, DictSet(map, name, ShortName(name, count)))
         ELSE ShortenLoop(Tail(names), count, DictSet(map, name, name))

\* lines 125-147
ShortenNames ==
    /\ pc = "shorten"
    /\ new_constraint_names' = ShortenLoop(order_obs_constraints, 0, <<>>)
    /\ new_decision_names' = ShortenLoop(order_dec_var, 0, <<>>)
    /\ pc' = "objective"
    /\ UNCHANGED <<args, mps_file, err, pst_name, operators, order_obs_constraints,
                   order_dec_var, obj, obj_name, rhs>>

\* lines 160-164 and 174-178: the sensitivities of one row, by decision variable
ObjFromRow(row_name) ==
    LET obj_iidx == Index(jco.row_names, row_name)
    IN  [i \in 1..Len(order_dec_var) |->
            <<order_dec_var[i], jco.x[obj_iidx][Index(jco.col_names, order_dec_var[i])]>>]

n_obj_func == <<"o","b","j","_","f","u","n","c">>

\* lines 149-191: [obj, obj_name, obj_func, err] for the three shapes of obj_func
Objective ==
    LET fail(e) == [obj |-> obj, obj_name |-> obj_name, obj_func |-> obj_func, err |-> e]
    IN
    CASE obj_func.type = "None" ->
           IF g_n \notin Range(ObsGroups(pst)) THEN fail("Exception")
           ELSE IF Len(GroupMembers(pst, g_n)) # 1 THEN fail("AssertionError")
           ELSE LET name == GroupMembers(pst, g_n)[1] IN
                IF name \notin Range(jco.row_names)
                THEN [fail("ValueError") EXCEPT !.obj_name = Str(name)]
                ELSE [obj |-> ObjFromRow(name), obj_name |-> Str(name),
                      obj_func |-> obj_func, err |-> "none"]
      [] obj_func.type = "str" ->
           LET name == Lower(obj_func.s) IN
           IF name \notin Range(jco.row_names)
           THEN [fail("AssertionError") EXCEPT !.obj_func = Str(name)]
           ELSE IF name \notin Range(ObsNames(pst))
           THEN [fail("AssertionError") EXCEPT !.obj_func = Str(name)]
           ELSE [obj |-> ObjFromRow(name), obj_name |-> Str(name),
                 obj_func |-> Str(name), err |-> "none"]
      [] obj_func.type = "dict" ->
           LET d == obj_func.d
               bad == {i \in 1..Len(d) : d[i][1] \notin Range(jco.col_names)}
               upto == IF bad = {} THEN Len(d)
                       ELSE (CHOOSE i \in bad : \A j \in bad : i <= j) - 1
           IN  [obj |-> SubSeq(d, 1, upto),
                obj_name |-> IF bad = {} THEN Str(n_obj_func) ELSE obj_name,
                obj_func |-> obj_func,
                err |-> IF bad = {} THEN "none" ELSE "AssertionError"]
      [] OTHER -> fail("NotImplementedError")

BuildObjective ==
    /\ pc = "objective"
    /\ obj' = Objective.obj
    /\ obj_name' = Objective.obj_name
    /\ obj_func' = Objective.obj_func
    /\ IF Objective.err = "none" THEN pc' = "rhs" /\ err' = err
       ELSE Raise(Objective.err)
    /\ UNCHANGED <<jco, pst, pst_file, decision_var_names, obs_constraint_sense,
                   risk, mps_filename, mps_file, sense_arg, pst_name, operators,
                   order_obs_constraints, order_dec_var, new_constraint_names,
                   new_decision_names, rhs>>

\* pst.res.loc[name, "residual"]
Residual(p, name) == p.res.rows[Index(ResNames(p), name)].residual

\* line 212: sqrt(2) * erfinv(2 * risk - 1), in thousandths, for the risk
\* levels of the model
ProbitVal(r) == CASE r = 100 -> 0 - 1282
                  [] r = 500 -> 0
                  [] r = 900 -> 1282

\* lines 204-207: the posterior standard deviation that Schur gives each
\* constraint, in whole units
ConstraintStd(names) == [i \in 1..Len(names) |-> <<names[i], i + 1>>]

\* a slip: the 'g' branch subtracts as the 'l' branch does
ProbVal_BothSubtract(op, mu, probit_val, std) ==
    IF op = <<"l">> THEN <<mu - (probit_val * std)>>
    ELSE IF op = <<"g">> THEN <<mu - (probit_val * std)>>
    ELSE <<>>

\* a slip: every operator that is not 'l' is shifted as 'g' is
ProbVal_ElseGreater(op, mu, probit_val, std) ==
    IF op = <<"l">> THEN <<mu - (probit_val * std)>>
    ELSE <<mu + (probit_val * std)>>

\* lines 216-228: the chance-constrained value, <<>> for an operator that
\* is neither 'l' nor 'g'
ProbVal(op, mu, probit_val, std) ==
    IF op = <<"l">> THEN <<mu - (probit_val * std)>>
    ELSE IF op = <<"g">> THEN <<mu + (probit_val * std)>>
    ELSE <<>>

RECURSIVE RiskLoop(_, _, _)
\* lines 213-229
RiskLoop(names, stds, acc) ==
    IF names = <<>> THEN [rhs |-> acc, err |-> "none"]
    ELSE LET name == Head(names)
             v == ProbVal(DictGet(operators, name), Residual(pst, name),
                          ProbitVal(risk), DictGet(stds, name))
         IN  IF v = <<>> THEN [rhs |-> acc, err |-> "NotImplementedError"]
             ELSE RiskLoop(Tail(names), stds, DictSet(acc, name, v[1]))

\* lines 193-231
Rhs ==
    IF risk # 500
    THEN LET par_names == SelectSeqBy(jco.col_names,
                              Range(jco.col_names) \ Range(decision_var_names.items))
         IN  IF Len(par_names) = 0 THEN [rhs |-> rhs, err |-> "Exception"]
             ELSE RiskLoop(order_obs_constraints,
                           ConstraintStd(order_obs_constraints), <<>>)
    ELSE [rhs |-> [i \in 1..Len(order_obs_constraints) |->
                      <<order_obs_constraints[i], Residual(pst, order_obs_constraints[i])>>],
          err |-> "none"]

ComputeRhs ==
    /\ pc = "rhs"
    /\ rhs' = Rhs.rhs
    /\ IF Rhs.err = "none" THEN pc' = "open" /\ err' = err
       ELSE Raise(Rhs.err)
    /\ UNCHANGED <<args, mps_file, pst_name, operators, order_obs_constraints,
                   order_dec_var, new_constraint_names, new_decision_names, obj,
                   obj_name>>

\* ------------------------------------------------------- the MPS file
\* a line of the file: its section, and the fields that format() fills
Header(sec) == [sec |-> sec, kind |-> "header", tag |-> <<>>, name1 |-> <<>>,
                name2 |-> <<>>, val |-> 0]
Line(sec, tag, name1, name2, val) ==
    [sec |-> sec, kind |-> "data", tag |-> tag, name1 |-> name1, name2 |-> name2,
     val |-> val]

\* lines 233-238: the file name, open(mps_filename, 'w'), NAME and ROWS
OpenFile ==
    /\ pc = "open"
    /\ mps_filename' = IF mps_filename.type = "None" THEN Str("case.mps")
                       ELSE mps_filename
    /\ mps_file' = [state |-> "open", lines |-> <<Header("NAME"), Header("ROWS")>>]
    /\ pc' = "rows"
    /\ UNCHANGED <<jco, pst, pst_file, decision_var_names, obs_constraint_sense,
                   obj_func, risk, sense_arg, err>>
    /\ UNCHANGED locals

\* lines 239-241: " {0}  {1}\n" for every constraint
RowLines == [i \in 1..Len(order_obs_constraints) |->
                Line("ROWS", DictGet(operators, order_obs_constraints[i]),
                     DictGet(new_constraint_names, order_obs_constraints[i]), <<>>, 0)]

\* line 242: the objective row
ObjectiveRowLine == Line("ROWS", <<"n">>, obj_name.s, <<>>, 0)

\* lines 239-244
WriteRows ==
    /\ pc = "rows"
    /\ mps_file' = [mps_file EXCEPT
                      !.lines = @ \o RowLines \o <<ObjectiveRowLine, Header("COLUMNS")>>]
    /\ pc' = "columns"
    /\ UNCHANGED <<args, err>>
    /\ UNCHANGED locals

\* pst.parameter_data.loc[name, field], <<>> where .loc raises KeyError
ParRow(p, name) ==
    IF name \in Range(ParNames(p)) THEN <<p.pars[Index(ParNames(p), name)]>> ELSE <<>>

\* lines 247-252: the matrix cells of one decision variable
CellLines(dname) ==
    [i \in 1..Len(order_obs_constraints) |->
        Line("COLUMNS", <<>>, Pad8(DictGet(new_decision_names, dname)),
             Pad8(DictGet(new_constraint_names, order_obs_constraints[i])),
             Format10G(jco.x[Index(jco.row_names, order_obs_constraints[i])]
                            [Index(jco.col_names, dname)]))]

\* lines 253-255: the objective coefficient of one decision variable
ObjectiveCoefficient(dname) == ParRow(pst, dname)[1].parval1

ObjectiveLine(dname) ==
    Line("COLUMNS", <<>>, Pad8(DictGet(new_decision_names, dname)), Pad8(obj_name.s),
         Format10G(ObjectiveCoefficient(dname)))

RECURSIVE ColumnLoop(_, _)
\* lines 245-255: the lines written, and the error that stops the loop
ColumnLoop(names, acc) ==
    IF names = <<>> THEN [lines |-> acc, err |-> "none"]
    ELSE LET dname == Head(names) IN
         IF ParRow(pst, dname) = <<>>
         THEN [lines |-> acc \o CellLines(dname), err |-> "KeyError"]
         ELSE ColumnLoop(Tail(names), acc \o CellLines(dname) \o <<ObjectiveLine(dname)>>)

\* lines 244-257; an exception leaves the with block, which closes the file
WriteColumns ==
    /\ pc = "columns"
    /\ LET w == ColumnLoop(order_dec_var, <<>>) IN
       IF w.err = "none"
       THEN /\ mps_file' = [mps_file EXCEPT !.lines = @ \o w.lines \o <<Header("RHS")>>]
            /\ pc' = "rhs_section"
            /\ err' = err
       ELSE /\ mps_file' = [state |-> "closed", lines |-> mps_file.lines \o w.lines]
            /\ Raise(w.err)
    /\ UNCHANGED args
    /\ UNCHANGED locals

n_rhs == <<"r","h","s">>
n_BOUND == <<"B","O","U","N","D">>

\* lines 258-261
RhsLines == [i \in 1..Len(order_obs_constraints) |->
                Line("RHS", <<>>, Pad8(n_rhs),
                     Pad8(DictGet(new_constraint_names, order_obs_constraints[i])),
                     Format10G(DictGet(rhs, order_obs_constraints[i])))]

\* lines 257-262
WriteRhs ==
    /\ pc = "rhs_section"
    /\ mps_file' = [mps_file EXCEPT !.lines = @ \o RhsLines \o <<Header("BOUNDS")>>]
    /\ pc' = "bounds"
    /\ UNCHANGED <<args, err>>
    /\ UNCHANGED locals

\* lines 266-269: the name written on the bound lines of a decision variable
BoundName(name) == name

\* lines 264-269: the UP and the LO line of one decision variable
BoundLines(name) ==
    << Line("BOUNDS", <<"U","P">>, Pad8(n_BOUND), Pad8(BoundName(name)),
            Format10G(ParRow(pst, name)[1].parubnd)),
       Line("BOUNDS", <<"L","O">>, Pad8(n_BOUND), Pad8(BoundName(name)),
            Format10G(ParRow(pst, name)[1].parlbnd)) >>

RECURSIVE BoundLoop(_, _)
\* lines 263-269
BoundLoop(names, acc) ==
    IF names = <<>> THEN [lines |-> acc, err |-> "none"]
    ELSE IF ParRow(pst, Head(names)) = <<>> THEN [lines |-> acc, err |-> "KeyError"]
    ELSE BoundLoop(Tail(names), acc \o BoundLines(Head(names)))

\* lines 262-270: BOUNDS, ENDATA, and the end of the with block
WriteBounds ==
    /\ pc = "bounds"
    /\ LET w == BoundLoop(order_dec_var, <<>>) IN
       IF w.err = "none"
       THEN /\ mps_file' = [state |-> "closed",
                            lines |-> mps_file.lines \o w.lines \o <<Header("ENDATA")>>]
            /\ pc' = "done"
            /\ err' = err
       ELSE /\ mps_file' = [state |-> "closed", lines |-> mps_file.lines \o w.lines]
            /\ Raise(w.err)
    /\ UNCHANGED args
    /\ UNCHANGED locals

Next ==
    \/ LoadJco
    \/ FindPst
    \/ SelectDecisionVars
    \/ ResolveConstraintSense
    \/ BuildOperators
    \/ BuildOperatorsKeysChanged
    \/ OrderNames
    \/ ShortenNames
    \/ BuildObjective
    \/ ComputeRhs
    \/ OpenFile
    \/ WriteRows
    \/ WriteColumns
    \/ WriteRhs
    \/ WriteBounds

Spec == Init /\ [][Next]_vars

\* ------------------------------------------------------------ reading the file
IsRowsData(ln) == ln.sec = "ROWS" /\ ln.kind = "data"
IsColumnsData(ln) == ln.sec = "COLUMNS" /\ ln.kind = "data"
IsRhsData(ln) == ln.sec = "RHS" /\ ln.kind = "data"
IsBoundsData(ln) == ln.sec = "BOUNDS" /\ ln.kind = "data"
RowsSection == SelectSeq(mps_file.lines, IsRowsData)
ColumnsSection == SelectSeq(mps_file.lines, IsColumnsData)
RhsSection == SelectSeq(mps_file.lines, IsRhsData)
BoundsSection == SelectSeq(mps_file.lines, IsBoundsData)

Succeeded == pc = "done"
\* the stages after the operators are built, and after the RHS is computed
AfterOperators == pc \in {"order", "shorten", "objective", "rhs", "open", "rows",
                          "columns", "rhs_section", "bounds", "done"}
AfterShorten == pc \in {"objective", "rhs", "open", "rows", "columns",
                        "rhs_section", "bounds", "done"}
AfterRhs == pc \in {"open", "rows", "columns", "rhs_section", "bounds", "done"}

\* the constraints the arguments resolve to: the keys of an explicit
\* mapping, else the observations of the groups l, g and e
ResolvedConstraints ==
    IF sense_arg.type = "dict" THEN {Lower(k) : k \in DictKeys(sense_arg.d)}
    ELSE {pst.obs[i].obsnme : i \in {j \in 1..Len(pst.obs) :
                                        pst.obs[j].obgnme \in {g_l, g_g, g_e}}}

\* the name a constraint is written under: cut to 7 characters and numbered
\* when longer than 8, else itself
WrittenAs(map, name) == DictGet(map, name)

C2_OneObjectiveRowLast ==
    Succeeded =>
        LET rows == RowsSection
        IN  /\ Len(rows) >= 1
            /\ rows[Len(rows)].tag = <<"n">>
            /\ \A i \in 1..(Len(rows) - 1) : rows[i].tag # <<"n">>

\* the canonical code of the sense a token stands for
SenseOf(token) ==
    CASE token = <<"<","=">> -> <<"l">>
      [] token = <<">","=">> -> <<"g">>
      [] token = <<"=">> -> <<"e">>
      [] OTHER -> Lower(token)

\* C3 (as claimed): with an explicit mapping, once the operators are built
\* every constraint has the canonical code of the sense its token stands for
\* ("<=" l, ">=" g, "=" e), which is one of l, g, e.
C3_SymbolsNormalised ==
    (sense_arg.type = "dict" /\ AfterOperators) =>
        \A i \in 1..Len(sense_arg.d) :
            LET name == Lower(sense_arg.d[i][1])
            IN  /\ name \in DictKeys(operators)
                /\ DictGet(operators, name) = SenseOf(sense_arg.d[i][2])
                /\ DictGet(operators, name) \in {<<"l">>, <<"g">>, <<"e">>}

\* the line of COLUMNS that pairs decision variable number i with the
\* objective row: the last of the variable's block of lines
ObjectiveLineOf(i) == ColumnsSection[i * (Len(order_obs_constraints) + 1)]

\* C4 (as claimed): with obj_func a mapping keyed by exactly the decision
\* variables, the objective coefficient written for each decision variable
\* is the mapping's value for it.
C4_ObjectiveFromMapping ==
    (/\ Succeeded
     /\ obj_func.type = "dict"
     /\ DictKeys(obj_func.d) = Range(order_dec_var)) =>
        \A i \in 1..Len(order_dec_var) :
            ObjectiveLineOf(i).val = Format10G(DictGet(obj_func.d, order_dec_var[i]))

\* C5 (as claimed): a decision variable with a name longer than 8 characters
\* is written on its UP and LO lines under the name of its COLUMNS lines.
C5_BoundsUseShortName ==
    Succeeded =>
        \A i \in 1..Len(order_dec_var) :
            Len(order_dec_var[i]) > 8 =>
                /\ BoundsSection[2 * i - 1].name2 = ObjectiveLineOf(i).name1
                /\ BoundsSection[2 * i].name2 = ObjectiveLineOf(i).name1

\* C6 (as claimed): no value of the constraint and decision-variable name
\* maps is longer than 8 characters.
C6_ShortNamesFit ==
    AfterShorten =>
        /\ \A i \in 1..Len(new_constraint_names) : Len(new_constraint_names[i][2]) <= 8
        /\ \A i \in 1..Len(new_decision_names) : Len(new_decision_names[i][2]) <= 8

Injective(map) ==
    \A i, j \in 1..Len(map) : map[i][2] = map[j][2] => map[i][1] = map[j][1]

\* C7 (as claimed): the constraint name map and the decision-variable name
\* map are each injective.
C7_ShortNamesUnique ==
    AfterShorten => Injective(new_constraint_names) /\ Injective(new_decision_names)

\* the shift of the RHS away from the residual that line i of RHS carries
RhsShift(i) == RhsSection[i].val - Residual(pst, order_obs_constraints[i])

Unshiftable == {name \in Range(order_obs_constraints) :
                   DictGet(operators, name) \notin {<<"l">>, <<"g">>}}

\* C9: at a risk other than 0.5, a call with a constraint whose operator is
\* neither 'l' nor 'g' never gets past the RHS stage (it raises there or
\* before) and never holds a right-hand side for that constraint.
C9_NoRhsForUnshiftable ==
    (risk # 500 /\ Unshiftable # {}) =>
        /\ ~AfterRhs
        /\ Unshiftable \cap DictKeys(rhs) = {}
        /\ pc = "rhs" => Rhs.err # "none"

\* C9 witness: the RHS stage raised on an equality constraint after it had
\* computed the right-hand side of another constraint.
C9_Witness ==
    /\ pc = "raised"
    /\ err = "NotImplementedError"
    /\ risk # 500
    /\ Unshiftable # {}
    /\ Len(rhs) > 0

\* C10 (as claimed): a call that raises has not created or truncated the
\* MPS file.
C10_RaisesBeforeOpen ==
    pc = "raised" => mps_file.state = "absent"
====
